---- MODULE Spec2Model ----
(***************************************************************************)
(* Model of the page shell of the site, src/components/Layout.tsx: a React *)
(* function component that keeps one boolean of hook state (domLoaded),    *)
(* sets it from a mount effect and renders the page frame only once the    *)
(* flag is true.  Each instance of the component is a process; the React   *)
(* runtime that calls the component function, flushes its effect, applies  *)
(* the queued state update and unmounts it is the environment.             *)
(***************************************************************************)
EXTENDS Integers, Sequences, FiniteSets, TLC

\* ---------------------------------------------------------------- bounds
\* longest children array handed to the shell
MaxChildren == 3
\* parent-driven render passes are allowed while fewer passes than this ran
MaxRenders == 4

\* the shell instances that may be mounted at the same time
Instances == {"s1", "s2"}
\* the shell the application mounts around its pages
PageShell == "s1"
\* the distinct child nodes (marker elements) a page may supply
Markers == {"m1", "m2", "m3"}
\* the values useRouter() may hand to a render pass
Routes == {"/", "/article"}
\* router value of an instance that has not rendered
NoRoute == "none"

\* ------------------------------------------------------- children (Props)
\* arrays of distinct marker nodes, at most n long
ChildArrays(n) ==
    UNION { { s \in [1..k -> Markers] : \A a, b \in 1..k : a # b => s[a] # s[b] }
            : k \in 0..n }

\* Props.children: absent, one element, or an array of elements
NoChildren == [kind |-> "undefined", els |-> << >>]

ChildrenInputs ==
    {NoChildren}
      \cup { [kind |-> "element", els |-> <<m>>] : m \in Markers }
      \cup { [kind |-> "array", els |-> s] : s \in ChildArrays(MaxChildren) }

\* what {children} contributes to the tree: nothing, the element, or the
\* elements of the array in array order
ChildNodes(children) ==
    CASE children.kind = "undefined" -> << >>
      [] children.kind = "element"   -> << children.els[1] >>
      [] children.kind = "array"     -> children.els

\* ------------------------------------------------------------ the output
\* The rendered tree, flattened in document order; every node carries the
\* node it is a direct child of.
BannerClass == "absolute w-full h-2 bg-gradient-to-r from-amber-500 to-pink-500"
ContainerClass == "flex flex-col flex-1 mx-auto w-full max-w-[1400px] min-h-screen"

Node(tag, className, parent) ==
    [tag |-> tag, className |-> className, parent |-> parent]

Banner == Node("div", BannerClass, "fragment")
Container == Node("div", ContainerClass, "fragment")
NavigationNode == Node("Navigation", "", ContainerClass)
FooterNode == Node("Footer", "", ContainerClass)
ChildNode(m) == Node(m, "", ContainerClass)

EmptyFragment == << >>

\* a frame that shows the static chrome whatever the flag is
LayoutBodyAlwaysFrame(loaded, children) ==
    << Banner, Container, NavigationNode >>
      \o [k \in 1..Len(ChildNodes(children)) |-> ChildNode(ChildNodes(children)[k])]
      \o << FooterNode >>

\* a frame that puts the footer above the children
LayoutBodyFooterFirst(loaded, children) ==
    IF loaded
    THEN << Banner, Container, NavigationNode, FooterNode >>
           \o [k \in 1..Len(ChildNodes(children)) |-> ChildNode(ChildNodes(children)[k])]
    ELSE EmptyFragment

\* a frame that keeps only the first child
LayoutBodyFirstChild(loaded, children) ==
    IF loaded
    THEN << Banner, Container, NavigationNode >>
           \o [k \in 1..(IF Len(ChildNodes(children)) > 0 THEN 1 ELSE 0)
                 |-> ChildNode(ChildNodes(children)[k])]
           \o << FooterNode >>
    ELSE EmptyFragment

\* a frame that shows its chrome only when there is content
LayoutBodyNeedsChildren(loaded, children) ==
    IF loaded /\ Len(ChildNodes(children)) > 0
    THEN << Banner, Container, NavigationNode >>
           \o [k \in 1..Len(ChildNodes(children)) |-> ChildNode(ChildNodes(children)[k])]
           \o << FooterNode >>
    ELSE EmptyFragment

\* a frame without the banner strip
LayoutBodyNoBanner(loaded, children) ==
    IF loaded
    THEN << Container, NavigationNode >>
           \o [k \in 1..Len(ChildNodes(children)) |-> ChildNode(ChildNodes(children)[k])]
           \o << FooterNode >>
    ELSE EmptyFragment

\* a frame that shows its chrome before the flag is set and withholds only
\* the children
LayoutBodyChromeEarly(loaded, children) ==
    << Banner, Container, NavigationNode >>
      \o [k \in 1..(IF loaded THEN Len(ChildNodes(children)) ELSE 0)
            |-> ChildNode(ChildNodes(children)[k])]
      \o << FooterNode >>

\* a frame whose footer is shown only below content
LayoutBodyFooterOnContent(loaded, children) ==
    IF loaded
    THEN << Banner, Container, NavigationNode >>
           \o [k \in 1..Len(ChildNodes(children)) |-> ChildNode(ChildNodes(children)[k])]
           \o (IF Len(ChildNodes(children)) > 0 THEN << FooterNode >> ELSE << >>)
    ELSE EmptyFragment

\* a frame with the test of the flag inverted
LayoutBodyInverted(loaded, children) ==
    IF ~loaded
    THEN << Banner, Container, NavigationNode >>
           \o [k \in 1..Len(ChildNodes(children)) |-> ChildNode(ChildNodes(children)[k])]
           \o << FooterNode >>
    ELSE EmptyFragment

\* the return value of the component function: lines 18-30
LayoutBody(loaded, children) ==
    IF loaded
    THEN << Banner, Container, NavigationNode >>
           \o [k \in 1..Len(ChildNodes(children)) |-> ChildNode(ChildNodes(children)[k])]
           \o << FooterNode >>
    ELSE EmptyFragment

\* ------------------------------------------------------------- the hooks
\* a flag kept at module level: every instance reads and writes the same cell
StateCellShared(i) == PageShell

\* the cell that holds the hook state of instance i: useState belongs to the
\* component instance that calls it
StateCell(i) == i

\* a body that calls children.map: it throws unless children is an array
RenderThrowsUnlessArray(loaded, children) ==
    loaded /\ children.kind # "array"

\* whether the body throws: {children} is evaluated only in the frame, and
\* React renders undefined, an element and an array of elements
RenderThrows(loaded, children) ==
    loaded /\ children.kind \notin {"undefined", "element", "array"}

\* children captured once, by the mounting pass, and shown ever after
ChildrenOfPassMemoized(isMount, previous, supplied) ==
    IF isMount THEN supplied ELSE previous

\* the children a pass works with: the ones its own call was given
\* ({ children } of line 11), not those of an earlier call
ChildrenOfPass(isMount, previous, supplied) == supplied

\* a body that hides the children on article routes
ComponentRouteAware(route, loaded, children) ==
    IF route = "/article" THEN LayoutBody(loaded, NoChildren)
    ELSE LayoutBody(loaded, children)

\* the component function: it obtains the router (line 12) and returns the
\* tree of lines 18-30, in which the router is not used
Component(route, loaded, children) == LayoutBody(loaded, children)

\* a plain local instead of hook state: every pass starts from the initial value
UseStateForgets(isMount, stored, initial) == initial

\* hook state that starts out true
UseStateStartsTrue(isMount, stored, initial) ==
    IF isMount THEN TRUE ELSE stored

\* hook state that a later pass sets itself, without waiting for the effect
UseStateSetOnRender(isMount, stored, initial) ==
    IF isMount THEN initial ELSE TRUE

\* useState(initial): the initial value on the mounting pass, the stored
\* state on every later pass
UseState(isMount, stored, initial) ==
    IF isMount THEN initial ELSE stored

\* the dependency list of the effect: [] on every pass
EffectDeps == << >>

\* an effect without a dependency list: scheduled by every pass
UseEffectEveryPass(isMount, pending, prevDeps, deps) == TRUE

\* an effect that is never scheduled
UseEffectNever(isMount, pending, prevDeps, deps) == pending

\* an effect that a later pass drops when it has not run yet
UseEffectDroppedByRerender(isMount, pending, prevDeps, deps) == isMount

\* useEffect(f, deps): f is scheduled by the mounting pass and by a later
\* pass whose dependencies differ from those of the pass before it
UseEffect(isMount, pending, prevDeps, deps) ==
    pending \/ isMount \/ prevDeps # deps

\* a setter that stores the value without asking for a render
SetStateSilent(current, queued, value) ==
    [state |-> value, queued |-> queued]

\* setDomLoaded(value): a value equal to the current state is dropped, any
\* other value is stored and a render pass is queued
SetState(current, queued, value) ==
    IF current = value
    THEN [state |-> current, queued |-> queued]
    ELSE [state |-> value, queued |-> TRUE]

\* ------------------------------------------------------------- the state
VARIABLES
    mounted,        \* the instance exists
    domLoaded,      \* MountState: the hook state of useState(false)
    seenLoaded,     \* the value of domLoaded the last render pass read
    effectPending,  \* the mount effect is scheduled and has not run
    updateQueued,   \* a state update waits for its render pass
    props,          \* the children of the last render pass
    router,         \* the router value of the last render pass
    output,         \* the result of the last render pass
    renders,        \* render passes of this lifecycle
    emptyRenders,   \* render passes of this lifecycle with an empty result
    parentRenders,  \* render passes of this lifecycle asked for by the parent
    effectRuns,     \* runs of the effect in this lifecycle
    transitions,    \* changes of domLoaded in this lifecycle
    cutShort,       \* the last unmount found an effect or an update still scheduled
    leftFrom,       \* the state the lifecycle before this one was unmounted from
    crashed,        \* the last render pass threw
    serverProps,    \* the children of the server's render of the page
    serverOutput,   \* the result of the server's render of the page
    opened,         \* the article the router opened and the body it rendered
    page            \* what the default export of that article handed its wrapper

vars == << mounted, domLoaded, seenLoaded, effectPending, updateQueued, props,
           router, output, renders, emptyRenders, parentRenders, effectRuns,
           transitions, cutShort, leftFrom, crashed, serverProps, serverOutput,
           opened, page >>

\* the article page; no action of the shell touches it
articleVars == << opened, page >>

\* what the server sent; no client action touches it
serverVars == << serverProps, serverOutput >>

\* no server render has happened
NoServer == [kind |-> "none", els |-> << >>]

TypeOK ==
    /\ mounted \in [Instances -> BOOLEAN]
    /\ domLoaded \in [Instances -> BOOLEAN]
    /\ seenLoaded \in [Instances -> BOOLEAN]
    /\ effectPending \in [Instances -> BOOLEAN]
    /\ updateQueued \in [Instances -> BOOLEAN]
    /\ \A i \in Instances : props[i] \in ChildrenInputs
    /\ router \in [Instances -> Routes \cup {NoRoute}]
    /\ renders \in [Instances -> 0..(MaxRenders + 1)]
    /\ emptyRenders \in [Instances -> 0..(MaxRenders + 1)]
    /\ parentRenders \in [Instances -> 0..MaxRenders]
    /\ effectRuns \in [Instances -> Nat]
    /\ transitions \in [Instances -> Nat]
    /\ cutShort \in [Instances -> BOOLEAN]
    /\ leftFrom \in [Instances -> {"none", "MountedNotReady", "MountedReady"}]
    /\ crashed \in [Instances -> BOOLEAN]
    /\ serverProps \in ChildrenInputs \cup {NoServer}
    /\ serverOutput \in Seq([tag : STRING, className : STRING, parent : STRING])
    /\ opened.article \in STRING /\ opened.body \in ChildrenInputs
    /\ page.wrapper \in STRING /\ page.children \in ChildrenInputs

Init ==
    /\ mounted = [i \in Instances |-> FALSE]
    /\ domLoaded = [i \in Instances |-> FALSE]
    /\ seenLoaded = [i \in Instances |-> FALSE]
    /\ effectPending = [i \in Instances |-> FALSE]
    /\ updateQueued = [i \in Instances |-> FALSE]
    /\ props = [i \in Instances |-> NoChildren]
    /\ router = [i \in Instances |-> NoRoute]
    /\ output = [i \in Instances |-> EmptyFragment]
    /\ renders = [i \in Instances |-> 0]
    /\ emptyRenders = [i \in Instances |-> 0]
    /\ parentRenders = [i \in Instances |-> 0]
    /\ effectRuns = [i \in Instances |-> 0]
    /\ transitions = [i \in Instances |-> 0]
    /\ cutShort = [i \in Instances |-> FALSE]
    /\ leftFrom = [i \in Instances |-> "none"]
    /\ crashed = [i \in Instances |-> FALSE]
    /\ serverProps = NoServer
    /\ serverOutput = EmptyFragment
    /\ opened = [article |-> "none", body |-> NoChildren]
    /\ page = [wrapper |-> "none",
               meta |-> [title |-> "", author |-> "", tag |-> "", date |-> "",
                         publish_after |-> ""],
               children |-> NoChildren]

\* ------------------------------------------------------------ operations
\* One call of the component function for instance i with the children ch
\* and the router value r: lines 11-31.  The pass reads the hook state,
\* registers the effect and returns the tree; it applies the queued update.
RenderPass(i, ch, r, isMount) ==
    LET loaded == UseState(isMount, domLoaded[StateCell(i)], FALSE)
        tree == Component(r, loaded, ChildrenOfPass(isMount, props[i], ch))
    IN /\ router' = [router EXCEPT ![i] = r]
       /\ domLoaded' = [domLoaded EXCEPT ![StateCell(i)] = loaded]
       /\ crashed' = [crashed EXCEPT ![i] = RenderThrows(loaded, ch)]
       /\ seenLoaded' = [seenLoaded EXCEPT ![i] = loaded]
       /\ effectPending' = [effectPending EXCEPT ![i] =
              UseEffect(isMount, IF isMount THEN FALSE ELSE effectPending[i],
                        EffectDeps, EffectDeps)]
       /\ updateQueued' = [updateQueued EXCEPT ![i] = FALSE]
       /\ props' = [props EXCEPT ![i] = ch]
       /\ output' = [output EXCEPT ![i] = tree]
       /\ renders' = [renders EXCEPT ![i] = IF isMount THEN 1 ELSE @ + 1]
       /\ emptyRenders' = [emptyRenders EXCEPT ![i] =
              (IF isMount THEN 0 ELSE @) + (IF tree = EmptyFragment THEN 1 ELSE 0)]
       /\ transitions' = [transitions EXCEPT ![i] =
              IF isMount THEN 0
              ELSE IF loaded # domLoaded[i] THEN @ + 1 ELSE @]
       /\ UNCHANGED serverVars
       /\ UNCHANGED articleVars

\* the runtime mounts instance i: the first call of the component function
Mount(i, ch, r) ==
    /\ ~mounted[i]
    /\ mounted' = [mounted EXCEPT ![i] = TRUE]
    /\ RenderPass(i, ch, r, TRUE)
    /\ parentRenders' = [parentRenders EXCEPT ![i] = 0]
    /\ effectRuns' = [effectRuns EXCEPT ![i] = 0]
    /\ cutShort' = [cutShort EXCEPT ![i] = FALSE]
    /\ UNCHANGED leftFrom

\* the parent or the router renders instance i again, with any children; the
\* runtime may do so before it has flushed the effect of the first pass
ParentRender(i, ch, r) ==
    /\ mounted[i]
    /\ renders[i] < MaxRenders
    /\ RenderPass(i, ch, r, FALSE)
    /\ parentRenders' = [parentRenders EXCEPT ![i] = @ + 1]
    /\ UNCHANGED << mounted, effectRuns, cutShort, leftFrom >>

\* the render pass the state update asked for, with the children and the
\* router value unchanged
StateRender(i) ==
    /\ mounted[i]
    /\ updateQueued[i]
    /\ RenderPass(i, props[i], router[i], FALSE)
    /\ UNCHANGED << mounted, parentRenders, effectRuns, cutShort, leftFrom >>

\* the runtime flushes the effect of instance i: lines 14-16
RunEffect(i) ==
    LET set == SetState(domLoaded[StateCell(i)], updateQueued[i], TRUE)
    IN /\ effectPending[i]
       /\ effectPending' = [effectPending EXCEPT ![i] = FALSE]
       /\ domLoaded' = [domLoaded EXCEPT ![StateCell(i)] = set.state]
       /\ updateQueued' = [updateQueued EXCEPT ![i] = set.queued]
       /\ effectRuns' = [effectRuns EXCEPT ![i] = @ + 1]
       /\ transitions' = [transitions EXCEPT ![i] =
              IF set.state # domLoaded[i] THEN @ + 1 ELSE @]
       /\ UNCHANGED << mounted, seenLoaded, props, router, output, renders,
                       emptyRenders, parentRenders, cutShort, leftFrom, crashed >>
       /\ UNCHANGED serverVars
       /\ UNCHANGED articleVars

\* an unmount that leaves the scheduled work of the instance in place
DiscardedKeepsWork(flag) == flag

\* what is left of a piece of hook state or bookkeeping once the instance is
\* gone: the effect has no cleanup and no timer, the state dies with the instance
Discarded(flag) == FALSE

\* the runtime unmounts instance i: all of its local state is dropped
Unmount(i) ==
    /\ mounted[i]
    /\ mounted' = [mounted EXCEPT ![i] = FALSE]
    /\ domLoaded' = [domLoaded EXCEPT ![StateCell(i)] = Discarded(domLoaded[i])]
    /\ seenLoaded' = [seenLoaded EXCEPT ![i] = FALSE]
    /\ effectPending' = [effectPending EXCEPT ![i] = Discarded(effectPending[i])]
    /\ updateQueued' = [updateQueued EXCEPT ![i] = Discarded(updateQueued[i])]
    /\ props' = [props EXCEPT ![i] = NoChildren]
    /\ router' = [router EXCEPT ![i] = NoRoute]
    /\ output' = [output EXCEPT ![i] = EmptyFragment]
    /\ renders' = [renders EXCEPT ![i] = 0]
    /\ emptyRenders' = [emptyRenders EXCEPT ![i] = 0]
    /\ parentRenders' = [parentRenders EXCEPT ![i] = 0]
    /\ effectRuns' = [effectRuns EXCEPT ![i] = 0]
    /\ transitions' = [transitions EXCEPT ![i] = 0]
    /\ cutShort' = [cutShort EXCEPT ![i] = effectPending[i] \/ updateQueued[i]]
    /\ leftFrom' = [leftFrom EXCEPT ![i] =
           IF domLoaded[i] THEN "MountedReady" ELSE "MountedNotReady"]
    /\ crashed' = [crashed EXCEPT ![i] = FALSE]
    /\ UNCHANGED serverVars
    /\ UNCHANGED articleVars

\* the lifecycle of the one shell the application mounts
Next ==
    \/ \E ch \in ChildrenInputs, r \in Routes : Mount(PageShell, ch, r)
    \/ \E ch \in ChildrenInputs, r \in Routes : ParentRender(PageShell, ch, r)
    \/ StateRender(PageShell)
    \/ RunEffect(PageShell)
    \/ Unmount(PageShell)

Spec == Init /\ [][Next]_vars

\* the runtime flushes a scheduled effect and performs a queued render
FairSpec ==
    Spec /\ WF_vars(RunEffect(PageShell)) /\ WF_vars(StateRender(PageShell))

\* ---------------------------------------------------------- two shells
\* parent-driven render passes of a shell of the pair are allowed while fewer
\* passes than this ran
MaxPairRenders == 3

\* the children handed to the shells of the pair
PairInputs ==
    { NoChildren,
      [kind |-> "element", els |-> << "m1" >>],
      [kind |-> "array", els |-> << "m2", "m1" >>] }

\* two shells mounted side by side, their passes, effects and unmounts
\* interleaved in any order
PairNext ==
    \E i \in Instances :
        \/ \E ch \in PairInputs, r \in Routes : Mount(i, ch, r)
        \/ \E ch \in PairInputs, r \in Routes :
              renders[i] < MaxPairRenders /\ ParentRender(i, ch, r)
        \/ StateRender(i)
        \/ RunEffect(i)
        \/ Unmount(i)

PairSpec == Init /\ [][PairNext]_vars

\* ------------------------------------------------------ server and client
\* The server renders the page with the children ch: one call of the
\* component function in which useState hands out its initial value and
\* useEffect registers nothing, so no effect ever runs after it.  Only the
\* markup leaves the server.
\* ------------------------------------------------------------- articles
\* the article documents
Articles == { "recursion_trees", "cloudflare_workers_google_auth",
              "io_pipes_and_files", "prometheus_grafana" }

\* the fields of a metadata record
MetaFields == { "title", "author", "tag", "date", "publish_after" }

\* export const meta of each document
MetaRecursionTrees ==
    [title |-> "Table of contents using recursion trees",
     author |-> "ryan schachte", tag |-> "algorithms",
     date |-> "January 4, 2022", publish_after |-> ""]

MetaCloudflareWorkers ==
    [title |-> "Google Cloud OAuth2 and Cloudflare Workers",
     author |-> "ryan schachte", tag |-> "cloudflare",
     date |-> "October 22, 2022", publish_after |-> ""]

MetaIoPipes ==
    [title |-> "having fun with IO pipes and chunked file uploads in Go",
     author |-> "ryan schachte", tag |-> "Go",
     date |-> "January 24, 2023", publish_after |-> ""]

MetaPrometheus ==
    [title |-> "Deploying Prometheus & Grafana behind Nginx & Cloudflare",
     author |-> "ryan schachte", tag |-> "metrics",
     date |-> "November 1, 2022", publish_after |-> ""]

Meta(a) ==
    CASE a = "recursion_trees"                -> MetaRecursionTrees
      [] a = "cloudflare_workers_google_auth" -> MetaCloudflareWorkers
      [] a = "io_pipes_and_files"             -> MetaIoPipes
      [] a = "prometheus_grafana"             -> MetaPrometheus

\* a default export that renders the wrapper without the body
DefaultExportWithoutBody(a, children) ==
    [wrapper |-> "PostLayout", meta |-> Meta(a), children |-> NoChildren]

\* export default ({ children }) => <PostLayout meta={meta}>{children}</PostLayout>
DefaultExport(a, children) ==
    [wrapper |-> "PostLayout", meta |-> Meta(a), children |-> children]

\* the router opens article a and renders its default export with the body
OpenArticle(a, body) ==
    /\ opened' = [article |-> a, body |-> body]
    /\ page' = DefaultExport(a, body)
    /\ UNCHANGED << mounted, domLoaded, seenLoaded, effectPending,
                    updateQueued, props, router, output, renders,
                    emptyRenders, parentRenders, effectRuns, transitions,
                    cutShort, leftFrom, crashed, serverProps, serverOutput >>

\* the shell around article pages
ArticleNext ==
    \/ \E a \in Articles, body \in PairInputs : OpenArticle(a, body)
    \/ \E ch \in PairInputs, r \in Routes : Mount(PageShell, ch, r)
    \/ \E ch \in PairInputs, r \in Routes : ParentRender(PageShell, ch, r)
    \/ StateRender(PageShell)
    \/ RunEffect(PageShell)
    \/ Unmount(PageShell)

ArticleSpec == Init /\ [][ArticleNext]_vars

ServerRender(ch, r) ==
    LET loaded == UseState(TRUE, FALSE, FALSE)
    IN /\ ~mounted[PageShell]
       /\ serverProps' = ch
       /\ serverOutput' = LayoutBody(loaded, ch)
       /\ UNCHANGED << mounted, domLoaded, seenLoaded, effectPending,
                       updateQueued, props, router, output, renders,
                       emptyRenders, parentRenders, effectRuns, transitions,
                       cutShort, leftFrom, crashed >>
       /\ UNCHANGED articleVars

\* the client mounts the shell over the server's markup, with the children
\* the server rendered
Hydrate(i, r) ==
    /\ serverProps # NoServer
    /\ Mount(i, serverProps, r)

\* a page served by the server and taken over by the client
HydrationNext ==
    \/ \E ch \in ChildrenInputs, r \in Routes : ServerRender(ch, r)
    \/ \E r \in Routes : Hydrate(PageShell, r)
    \/ \E ch \in ChildrenInputs, r \in Routes : ParentRender(PageShell, ch, r)
    \/ StateRender(PageShell)
    \/ RunEffect(PageShell)
    \/ Unmount(PageShell)

HydrationSpec == Init /\ [][HydrationNext]_vars

\* ------------------------------------------------------------ properties
\* the tags of the nodes of a tree that are direct children of parent
TagsInside(tree, parent) ==
    LET inner == SelectSeq(tree, LAMBDA n : n.parent = parent)
    IN [k \in 1..Len(inner) |-> inner[k].tag]

\* how many nodes of a tree carry the tag
Count(tree, tag) == Cardinality({ k \in 1..Len(tree) : tree[k].tag = tag })

\* how many nodes of a tree carry the class
CountClass(tree, className) ==
    Cardinality({ k \in 1..Len(tree) : tree[k].className = className })

\* no effect and no update of the instance is waiting
Quiescent(i) == mounted[i] /\ ~effectPending[i] /\ ~updateQueued[i]

\* C1: the first render pass of a lifecycle returns an empty result (no banner,
\* no navigation, no children, no footer), whatever children were supplied.
C1_FirstRenderEmpty ==
    \A i \in Instances :
        (mounted[i] /\ renders[i] = 1) => Len(output[i]) = 0

C1_Witness ==
    /\ mounted[PageShell] /\ renders[PageShell] = 1
    /\ Len(ChildNodes(props[PageShell])) = 3
    /\ output[PageShell] = EmptyFragment

\* navigation, then the children in the order given, then the footer, each once
NavChildrenFooter(i) ==
    /\ TagsInside(output[i], ContainerClass)
         = << "Navigation" >> \o ChildNodes(props[i]) \o << "Footer" >>
    /\ Count(output[i], "Navigation") = 1
    /\ Count(output[i], "Footer") = 1

C3_MountStateMonotone ==
    [][\A i \in Instances :
          /\ (~mounted[i] /\ mounted'[i]) => ~domLoaded'[i]
          /\ (mounted[i] /\ mounted'[i]) =>
                /\ domLoaded[i] => domLoaded'[i]
                /\ transitions'[i] <= 1]_vars

C3_Witness ==
    /\ mounted[PageShell] /\ domLoaded[PageShell]
    /\ transitions[PageShell] = 1
    /\ renders[PageShell] >= 3

\* C4: in a lifecycle the effect that calls setDomLoaded(true) runs once, after
\* the first render pass; once MountState is true no render pass schedules it
\* again and no further transition happens.
C4_ReadinessFiresOnce ==
    \A i \in Instances :
        /\ effectRuns[i] <= 1
        /\ effectRuns[i] = 1 => renders[i] >= 1
        /\ (mounted[i] /\ effectPending[i]) => (effectRuns[i] = 0 /\ ~domLoaded[i])
        /\ (mounted[i] /\ ~effectPending[i]) => effectRuns[i] = 1
        /\ (mounted[i] /\ domLoaded[i]) =>
              (~effectPending[i] /\ effectRuns[i] = 1 /\ transitions[i] = 1)

C4_Witness ==
    /\ mounted[PageShell] /\ domLoaded[PageShell] /\ seenLoaded[PageShell]
    /\ renders[PageShell] - emptyRenders[PageShell] >= 3
    /\ effectRuns[PageShell] = 1 /\ transitions[PageShell] = 1

\* C5: N >= 1 children supplied to a ready shell all appear between navigation
\* and footer, in their original order, none dropped, duplicated or reordered.
C5_ChildrenKept ==
    \A i \in Instances :
        LET ch == ChildNodes(props[i])
            n == Len(ch)
            out == output[i]
        IN (mounted[i] /\ seenLoaded[i] /\ n >= 1) =>
              /\ Len(out) = n + 4
              /\ out[3].tag = "Navigation"
              /\ out[n + 4].tag = "Footer"
              /\ \A k \in 1..n : out[3 + k].tag = ch[k]
              /\ \A m \in Markers :
                    Count(out, m) = Cardinality({ k \in 1..n : ch[k] = m })

C5_Witness ==
    /\ mounted[PageShell] /\ seenLoaded[PageShell]
    /\ props[PageShell] = [kind |-> "array", els |-> << "m3", "m1", "m2" >>]
    /\ Len(output[PageShell]) = 7

\* C6: with zero children a ready shell still renders the banner, the
\* navigation and the footer, each once, with nothing between the last two.
C6_ZeroChildrenFrame ==
    \A i \in Instances :
        (mounted[i] /\ seenLoaded[i] /\ Len(ChildNodes(props[i])) = 0) =>
            /\ CountClass(output[i], BannerClass) = 1
            /\ Count(output[i], "Navigation") = 1
            /\ Count(output[i], "Footer") = 1
            /\ TagsInside(output[i], ContainerClass) = << "Navigation", "Footer" >>

C6_Witness ==
    /\ mounted[PageShell] /\ seenLoaded[PageShell]
    /\ props[PageShell].kind = "undefined"
    /\ Len(output[PageShell]) = 4

\* C7: an instance unmounted before its readiness transition was applied has
\* nothing scheduled: after the unmount nothing writes its MountState and
\* nothing renders it.
C7_NoWorkAfterUnmount ==
    /\ [](\A i \in Instances :
            ~mounted[i] => (~effectPending[i] /\ ~updateQueued[i]))
    /\ [][\A i \in Instances :
            (~mounted[i] /\ ~mounted'[i]) =>
                /\ domLoaded'[i] = domLoaded[i]
                /\ transitions'[i] = transitions[i]
                /\ renders'[i] = renders[i]
                /\ output'[i] = output[i]]_vars

C7_Witness ==
    /\ ~mounted[PageShell] /\ cutShort[PageShell]
    /\ ~domLoaded[PageShell] /\ renders[PageShell] = 0

\* the instance is ready and its last render pass returned the frame
ReadyAndFramed(i) ==
    /\ mounted[i] /\ domLoaded[i] /\ seenLoaded[i]
    /\ Count(output[i], "Navigation") = 1

\* C8: with a runtime that flushes effects and performs queued renders, every
\* instance that has rendered and stays mounted becomes ready and renders the
\* full frame.
C8_EventuallyReady ==
    \A i \in Instances :
        (mounted[i] /\ renders[i] >= 1) ~> (~mounted[i] \/ ReadyAndFramed(i))

C8_Witness ==
    /\ ReadyAndFramed(PageShell)
    /\ renders[PageShell] = 2 /\ parentRenders[PageShell] = 0

\* banner, navigation, children and footer appear in this order
FrameOrder(i) ==
    LET out == output[i]
        n == Len(ChildNodes(props[i]))
    IN /\ \E b \in 1..Len(out) :
             /\ out[b].className = BannerClass
             /\ \E v \in (b + 1)..Len(out) :
                   /\ out[v].tag = "Navigation"
                   /\ v + n + 1 <= Len(out)
                   /\ \A k \in 1..n : out[v + k].tag = ChildNodes(props[i])[k]
                   /\ out[v + n + 1].tag = "Footer"

\* C9 as stated: on every render with MountState true banner, navigation,
\* children and footer are emitted in this order and all four are inside the
\* bounded-width centered container.
C9_AllInsideContainer ==
    \A i \in Instances :
        (mounted[i] /\ seenLoaded[i]) =>
            /\ FrameOrder(i)
            /\ \A k \in 1..Len(output[i]) :
                  output[i][k].className # ContainerClass
                      => output[i][k].parent = ContainerClass

\* C9 (amended): on every render with MountState true the shell emits the
\* banner, the navigation, the children and the footer in this order;
\* navigation, children and footer are inside the bounded-width centered
\* container, and the banner is a sibling in front of the container, not
\* inside it.
C9_BannerBesideContainer ==
    \A i \in Instances :
        (mounted[i] /\ seenLoaded[i]) =>
            /\ FrameOrder(i)
            /\ CountClass(output[i], ContainerClass) = 1
            /\ CountClass(output[i], BannerClass) = 1
            /\ \A k \in 1..Len(output[i]) :
                  IF output[i][k].className \in {BannerClass, ContainerClass}
                  THEN output[i][k].parent = "fragment"
                  ELSE output[i][k].parent = ContainerClass
            /\ output[i][1].className = BannerClass
            /\ output[i][2].className = ContainerClass

C9_Witness ==
    /\ mounted[PageShell] /\ seenLoaded[PageShell]
    /\ Len(ChildNodes(props[PageShell])) = 2
    /\ output[PageShell][1] = Banner
    /\ output[PageShell][1].parent # ContainerClass

\* C10: a lifecycle without parent-driven renders and without unmount has
\* exactly two render passes, the first empty and the second the full frame:
\* the readiness transition asks for one render and one empty render is made.
C10_TwoPasses ==
    \A i \in Instances :
        (mounted[i] /\ parentRenders[i] = 0) =>
            /\ renders[i] <= 2
            /\ renders[i] = 1 => (emptyRenders[i] = 1 /\ Len(output[i]) = 0)
            /\ renders[i] = 2 => (emptyRenders[i] = 1 /\ Len(output[i]) > 0)
            /\ Quiescent(i) => renders[i] = 2

C10_Witness ==
    /\ Quiescent(PageShell) /\ parentRenders[PageShell] = 0
    /\ renders[PageShell] = 2 /\ emptyRenders[PageShell] = 1
    /\ Len(output[PageShell]) > 0

\* the step is one of instance i: a render pass, a run of its effect, a mount
\* or an unmount
StepOf(i) ==
    \/ renders'[i] # renders[i]
    \/ effectRuns'[i] # effectRuns[i]
    \/ mounted'[i] # mounted[i]

\* C11: with two shells mounted at once, under any interleaving, a render
\* pass, readiness transition or unmount of one shell leaves the flag and the
\* output of the other unchanged, and a render pass reads the flag of its own
\* shell only.
C11_ShellsIndependent ==
    [][\A i \in Instances :
          /\ StepOf(i) =>
                \A j \in Instances \ {i} :
                    /\ domLoaded'[j] = domLoaded[j]
                    /\ seenLoaded'[j] = seenLoaded[j]
                    /\ output'[j] = output[j]
                    /\ mounted'[j] = mounted[j]
          /\ (mounted[i] /\ mounted'[i] /\ renders'[i] # renders[i]) =>
                seenLoaded'[i] = domLoaded[i]]_vars

C11_Witness ==
    /\ mounted["s1"] /\ seenLoaded["s1"] /\ Len(output["s1"]) > 0
    /\ mounted["s2"] /\ ~domLoaded["s2"] /\ leftFrom["s2"] = "MountedReady"
    /\ Len(output["s2"]) = 0

\* C12: the server's render of the shell and the first render pass of the
\* client produce the same output for the same children, the empty result.
C12_ServerMatchesFirstClientPass ==
    /\ Len(serverOutput) = 0
    /\ \A i \in Instances :
          (mounted[i] /\ renders[i] = 1 /\ props[i] = serverProps) =>
              output[i] = serverOutput

C12_Witness ==
    /\ mounted[PageShell] /\ renders[PageShell] = 1
    /\ props[PageShell] = serverProps
    /\ Len(ChildNodes(serverProps)) = 2
    /\ output[PageShell] = serverOutput

\* C13: a render pass has no error outcome: for every children input and in
\* every state of MountState it returns the empty result or the full frame,
\* never throws and leaves MountState a proper boolean.
C13_RenderNeverFails ==
    \A i \in Instances :
        (mounted[i] /\ renders[i] >= 1) =>
            /\ ~crashed[i]
            /\ domLoaded[i] \in BOOLEAN
            /\ \/ Len(output[i]) = 0
               \/ Len(output[i]) = Len(ChildNodes(props[i])) + 4

C13_Witness ==
    /\ mounted[PageShell] /\ seenLoaded[PageShell] /\ ~crashed[PageShell]
    /\ props[PageShell].kind = "element"
    /\ Len(output[PageShell]) = 5

\* the state of the lifecycle of an instance
LifecycleState(isMounted, loaded) ==
    IF ~isMounted THEN "Unmounted"
    ELSE IF loaded THEN "MountedReady" ELSE "MountedNotReady"

\* C14: the lifecycle moves only Unmounted -> MountedNotReady (mount),
\* MountedNotReady -> MountedReady (the effect after the first pass) and to
\* Unmounted from either mounted state; MountedReady is never entered from
\* Unmounted, so every full frame follows an empty pass of its lifecycle.
C14_LifecycleTransitions ==
    /\ [][\A i \in Instances :
            LET from == LifecycleState(mounted[i], domLoaded[i])
                to == LifecycleState(mounted'[i], domLoaded'[i])
            IN from # to =>
                 \/ from = "Unmounted" /\ to = "MountedNotReady" /\ renders'[i] = 1
                 \/ /\ from = "MountedNotReady" /\ to = "MountedReady"
                    /\ effectRuns'[i] = effectRuns[i] + 1
                    /\ renders[i] >= 1
                 \/ from # "Unmounted" /\ to = "Unmounted"]_vars
    /\ [](\A i \in Instances :
            (mounted[i] /\ Len(output[i]) > 0) => emptyRenders[i] >= 1)

C14_Witness ==
    /\ mounted[PageShell] /\ domLoaded[PageShell]
    /\ Len(output[PageShell]) > 0 /\ emptyRenders[PageShell] >= 1
    /\ leftFrom[PageShell] = "MountedReady"

\* C15: unmounting from either mounted state discards MountState: an
\* unmounted shell holds no true flag, and a shell mounted again, even after
\* it had been ready, starts with the flag false and an empty first render.
C15_RemountStartsOver ==
    \A i \in Instances :
        leftFrom[i] # "none" =>
            /\ ~mounted[i] => (~domLoaded[i] /\ Len(output[i]) = 0)
            /\ (mounted[i] /\ effectRuns[i] = 0) => ~domLoaded[i]
            /\ (mounted[i] /\ renders[i] = 1) =>
                  (~seenLoaded[i] /\ Len(output[i]) = 0)

C15_Witness ==
    /\ mounted[PageShell] /\ renders[PageShell] = 1
    /\ leftFrom[PageShell] = "MountedReady"
    /\ ~domLoaded[PageShell] /\ Len(ChildNodes(props[PageShell])) = 3
    /\ Len(output[PageShell]) = 0

\* C16: once the first pass has scheduled the effect, no parent render,
\* change of children or change of route drops it while the shell stays
\* mounted, and with a runtime that flushes effects MountState becomes true.
C16_EffectNotCancelled ==
    /\ [][\A i \in Instances :
            (mounted[i] /\ effectPending[i] /\ mounted'[i]) =>
                \/ effectPending'[i]
                \/ effectRuns'[i] = effectRuns[i] + 1 /\ domLoaded'[i]]_vars
    /\ \A i \in Instances :
            (mounted[i] /\ effectPending[i]) ~> (~mounted[i] \/ domLoaded[i])

C16_Witness ==
    /\ mounted[PageShell] /\ domLoaded[PageShell]
    /\ emptyRenders[PageShell] >= 2
    /\ effectRuns[PageShell] = 1

\* the tree is the entire frame around the children
WholeFrame(tree, children) ==
    /\ Len(tree) = Len(ChildNodes(children)) + 4
    /\ CountClass(tree, BannerClass) = 1
    /\ CountClass(tree, ContainerClass) = 1
    /\ Count(tree, "Navigation") = 1
    /\ Count(tree, "Footer") = 1
    /\ \A k \in 1..Len(ChildNodes(children)) :
          Count(tree, ChildNodes(children)[k]) = 1

\* the step contains a render pass of instance i
PassOf(i) == mounted'[i] /\ renders'[i] # renders[i]

\* C17: render passes happen one at a time and the readiness transition is
\* never applied within one: a pass reads a single value of MountState and
\* returns the empty result or the entire frame, never a part of the frame.
C17_OnePassAtATime ==
    [][/\ Cardinality({ i \in Instances : PassOf(i) }) <= 1
       /\ \A i \in Instances :
             PassOf(i) =>
                /\ mounted[i] => effectRuns'[i] = effectRuns[i]
                /\ mounted[i] =>
                      (seenLoaded'[i] = domLoaded[i] /\ seenLoaded'[i] = domLoaded'[i])
                /\ \/ Len(output'[i]) = 0
                   \/ WholeFrame(output'[i], props'[i])]_vars

C17_Witness ==
    /\ mounted["s1"] /\ mounted["s2"]
    /\ seenLoaded["s1"] /\ WholeFrame(output["s1"], props["s1"])
    /\ Len(ChildNodes(props["s1"])) = 2
    /\ ~seenLoaded["s2"] /\ domLoaded["s2"] /\ Len(output["s2"]) = 0

\* C18: once MountState is true every render pass shows Navigation and
\* Footer, whatever the children and the route are, and the two get no
\* props from the shell.
C18_ChromeUnconditional ==
    \A i \in Instances :
        (mounted[i] /\ seenLoaded[i]) =>
            /\ \E k \in 1..Len(output[i]) :
                  output[i][k] =
                      [tag |-> "Navigation", className |-> "", parent |-> ContainerClass]
            /\ \E k \in 1..Len(output[i]) :
                  output[i][k] =
                      [tag |-> "Footer", className |-> "", parent |-> ContainerClass]

C18_Witness ==
    /\ mounted[PageShell] /\ seenLoaded[PageShell]
    /\ router[PageShell] = "/article"
    /\ props[PageShell] = [kind |-> "array", els |-> << >>]
    /\ Count(output[PageShell], "Footer") = 1

\* C19: the result of a render pass is the full frame exactly when MountState
\* was true as the pass ran and empty exactly when it was false.
C19_FrameIffLoaded ==
    \A i \in Instances :
        (mounted[i] /\ renders[i] >= 1) =>
            /\ seenLoaded[i] <=> WholeFrame(output[i], props[i])
            /\ ~seenLoaded[i] <=> Len(output[i]) = 0

C19_Witness ==
    /\ mounted[PageShell] /\ ~seenLoaded[PageShell] /\ domLoaded[PageShell]
    /\ renders[PageShell] = 2
    /\ Len(ChildNodes(props[PageShell])) = 1
    /\ Len(output[PageShell]) = 0

\* C20: a render pass, empty or full, leaves MountState as it found it; while
\* the shell is mounted the flag changes only in a run of its own effect.
C20_OnlyEffectWrites ==
    [][\A i \in Instances :
          /\ renders'[i] = renders[i] + 1 => domLoaded'[i] = domLoaded[i]
          /\ (mounted[i] /\ mounted'[i] /\ domLoaded'[i] # domLoaded[i]) =>
                /\ effectRuns'[i] = effectRuns[i] + 1
                /\ renders'[i] = renders[i]
                /\ output'[i] = output[i]]_vars

C20_Witness ==
    /\ mounted[PageShell] /\ domLoaded[PageShell] /\ seenLoaded[PageShell]
    /\ emptyRenders[PageShell] >= 2
    /\ renders[PageShell] - emptyRenders[PageShell] >= 2

\* the markers of a sequence of child nodes
MarkersOf(nodes) == { nodes[k] : k \in 1..Len(nodes) }

\* C21: when the children change between render passes, a pass of a ready
\* shell emits exactly the children it was given: those of an earlier pass,
\* the empty first one included, are not kept and not shown.
C21_PassShowsItsChildren ==
    \A i \in Instances :
        (mounted[i] /\ seenLoaded[i]) =>
            /\ TagsInside(output[i], ContainerClass)
                 = << "Navigation" >> \o ChildNodes(props[i]) \o << "Footer" >>
            /\ \A m \in Markers \ MarkersOf(ChildNodes(props[i])) :
                  Count(output[i], m) = 0
            /\ \A m \in MarkersOf(ChildNodes(props[i])) :
                  Count(output[i], m) = 1

C21_Witness ==
    /\ mounted[PageShell] /\ seenLoaded[PageShell]
    /\ serverProps = [kind |-> "array", els |-> << "m1", "m2" >>]
    /\ props[PageShell] = [kind |-> "element", els |-> << "m3" >>]
    /\ Count(output[PageShell], "m1") = 0
    /\ Count(output[PageShell], "m3") = 1

\* C22: the result of a render pass is determined by MountState and the
\* children: two shells that agree on the flag their pass read and on the
\* children show the same output whatever router values they obtained, and
\* the state a pass leaves behind is fixed by the state it found.
C22_RouterIrrelevant ==
    /\ [](\A i, j \in Instances :
            ( /\ mounted[i] /\ mounted[j]
              /\ seenLoaded[i] = seenLoaded[j]
              /\ props[i] = props[j] ) => output[i] = output[j])
    /\ [][\A i \in Instances :
            (mounted[i] /\ PassOf(i)) =>
                /\ domLoaded'[i] = domLoaded[i]
                /\ effectPending'[i] = effectPending[i]
                /\ ~updateQueued'[i]
                /\ ~crashed'[i]]_vars

C22_Witness ==
    /\ mounted["s1"] /\ mounted["s2"]
    /\ seenLoaded["s1"] /\ seenLoaded["s2"]
    /\ props["s1"] = props["s2"] /\ Len(ChildNodes(props["s1"])) = 2
    /\ router["s1"] = "/" /\ router["s2"] = "/article"
    /\ output["s1"] = output["s2"] /\ Len(output["s1"]) = 6

\* the values a metadata record holds
MetaValues(meta) == { meta[f] : f \in DOMAIN meta }

\* C23: every article exports a metadata record with the fields title,
\* author, tag, date and publish_after; its default export hands that record
\* and the children it got, unchanged, to PostLayout; and the shell's state
\* and output do not depend on the metadata.
C23_ArticleExports ==
    /\ [](/\ \A a \in Articles : DOMAIN Meta(a) = MetaFields
          /\ opened.article \in Articles =>
                /\ page.wrapper = "PostLayout"
                /\ page.meta = Meta(opened.article)
                /\ DOMAIN page.meta = MetaFields
                /\ page.children = opened.body
          /\ \A i \in Instances :
                (mounted[i] /\ renders[i] >= 1) =>
                    /\ IF seenLoaded[i] THEN WholeFrame(output[i], props[i])
                       ELSE Len(output[i]) = 0
                    /\ \A k \in 1..Len(output[i]) :
                          /\ output[i][k].tag \notin MetaValues(page.meta) \ {""}
                          /\ output[i][k].className \notin MetaValues(page.meta) \ {""})
    /\ [][page' # page =>
            /\ domLoaded' = domLoaded
            /\ output' = output
            /\ effectPending' = effectPending
            /\ updateQueued' = updateQueued]_vars

C23_Witness ==
    /\ opened.article = "io_pipes_and_files"
    /\ opened.body = [kind |-> "array", els |-> << "m2", "m1" >>]
    /\ page.meta.tag = "Go" /\ page.children = opened.body
    /\ mounted[PageShell] /\ seenLoaded[PageShell]
    /\ props[PageShell] = [kind |-> "element", els |-> << "m1" >>]

====
